---- MODULE Spec2Model ----
(***************************************************************************)
(* M-Pesa payment core of cyber_pos: payment intents, the public webhook,  *)
(* the matcher and the status read, as a state machine over the ledger     *)
(* rows (PaymentIntent, Transaction, MpesaPayment, AuditLog).              *)
(*                                                                         *)
(* Money is counted in cents (the columns are Numeric(10, 2)); time in     *)
(* seconds.  Row ids are positions in the table sequences; 0 stands for    *)
(* Python's None / SQL NULL wherever an id, a receipt or a code is         *)
(* nullable.                                                               *)
(***************************************************************************)
EXTENDS Integers, Sequences, FiniteSets, TLC

VARIABLES
    intents,      \* table payment_intents, in insertion order
    txns,         \* table transactions: id -> the two fields the core writes
    payments,     \* table mpesa_payments, in insertion order
    audit,        \* the rows the request served last appended to audit_logs
    now,          \* wall clock (datetime.utcnow()), seconds
    allowed_ips,  \* settings.get_mpesa_allowed_ips()
    last,         \* the request served last and the response it got
    handlers,     \* the webhook handlers running side by side, each with its position
    audit_logs,   \* table audit_logs: per user, the void / refund rows written today
    alerts        \* table alerts, in insertion order

vars == <<intents, txns, payments, audit, now, allowed_ips, last, handlers,
          audit_logs, alerts>>

-----------------------------------------------------------------------------
(* Bounds of the model *)

MaxIntents == 2     \* rows of payment_intents
MaxPayments == 2    \* rows of mpesa_payments

(* Program constants *)

TTL_SECONDS == 90          \* PaymentIntent.__init__: timedelta(seconds=90)
CALLBACK_TOLERANCE == 1    \* Decimal("0.01"), in cents

None == 0
NoTime == 0 - 1                            \* a NULL timestamp

TxnIds == {1, 2}                           \* the transactions in the ledger
PaidTxns == {1}                            \* the transactions paid through M-Pesa
MissingTxn == Cardinality(TxnIds) + 1      \* an id no transaction row has
Receipts == {1, 2}                         \* provider receipt numbers
CheckoutIds == 1..(MaxIntents + 1)         \* MaxIntents + 1 is never issued
IntentAmounts == {100}                     \* KES 1.00
CallbackAmounts == 98..102
Users == {1}
\* The instants at which requests arrive: 0, and one second after an intent
\* created at 0 has expired
Times == {0, TTL_SECONDS + 1}

PENDING == "pending"
CONFIRMED == "confirmed"
FAILED == "failed"
EXPIRED == "expired"
CANCELLED == "cancelled"

NoReason == ""

-----------------------------------------------------------------------------
(* Helpers over the tables *)

Abs(x) == IF x < 0 THEN -x ELSE x

Idx(s) == 1..Len(s)

\* Faulty variant of the lookup: the filter on the checkout id is dropped
IntentByCheckout_NoFilter(its, c) ==
    IF its # <<>> THEN 1 ELSE None

\* db.query(PaymentIntent).filter(mpesa_checkout_request_id == c).first()
\* A NULL column never equals the parameter.
IntentByCheckout(its, c) ==
    IF c # None /\ \E i \in Idx(its) : its[i].checkout = c
    THEN CHOOSE i \in Idx(its) :
            /\ its[i].checkout = c
            /\ \A j \in Idx(its) : its[j].checkout = c => i <= j
    ELSE None

\* Faulty variant of the existing-intent query: only CONFIRMED intents block
ActiveIntentExists_ConfirmedOnly(its, t) ==
    \E i \in Idx(its) : its[i].transaction_id = t /\ its[i].status = CONFIRMED

\* the existing-intent query of initiate: PENDING or CONFIRMED for the transaction
ActiveIntentExists(its, t) ==
    \E i \in Idx(its) :
        its[i].transaction_id = t /\ its[i].status \in {PENDING, CONFIRMED}

\* PaymentIntent.is_expired
is_expired(it, t) == t > it.expires_at /\ it.status = PENDING

\* log_audit(db, user_id, action, ...): one row appended to audit_logs.
\* The payment core never reads audit_logs, so the model keeps the rows of the
\* request being served, not the table.
log_audit(aud, action, expected, received, existing_status) ==
    Append(aud, [action |-> action, expected |-> expected,
                 received |-> received, existing_status |-> existing_status])


-----------------------------------------------------------------------------
(* Webhook: the security checks of mpesa_callback *)

\* Faulty variant of the replay check: FAILED intents are processed again
IsReplay_ConfirmedOnly(status) == status = CONFIRMED

\* existing_intent.status in [CONFIRMED, FAILED]
IsReplay(status) == status \in {CONFIRMED, FAILED}

\* Faulty variant of the amount check: a difference of exactly 0.01 is rejected
AmountMismatch_Inclusive(amount, expected) ==
    Abs(amount - expected) >= CALLBACK_TOLERANCE

\* abs(amount - expected_amount) > Decimal("0.01")
AmountMismatch(amount, expected) == Abs(amount - expected) > CALLBACK_TOLERANCE

\* Faulty variant of the allowlist test: the membership test is inverted
Unauthorized_Inverted(ip) == allowed_ips # {} /\ ip \in allowed_ips

\* allowed_ips and client_ip not in allowed_ips
Unauthorized(ip) == allowed_ips # {} /\ ip \notin allowed_ips

-----------------------------------------------------------------------------
(* Matcher *)

\* Faulty variant of the matcher: the receipt is not propagated to the
\* owning transaction
match_callback_to_intent_IntentOnly(its, txs, c, receipt, t, raises) ==
    LET i == IntentByCheckout(its, c) IN
    IF raises \/ i = None
    THEN [matched |-> None, intents |-> its, txns |-> txs]
    ELSE [matched |-> i,
          intents |-> [its EXCEPT ![i].status = CONFIRMED,
                                  ![i].receipt = receipt,
                                  ![i].confirmed_at = t],
          txns |-> txs]

\* MpesaMatcher.match_callback_to_intent.  raises: an exception inside its try
\* block (datastore error); the except clause rolls back and returns None.
match_callback_to_intent(its, txs, c, receipt, t, raises) ==
    LET i == IntentByCheckout(its, c) IN
    IF raises \/ i = None
    THEN [matched |-> None, intents |-> its, txns |-> txs]
    ELSE [matched |-> i,
          intents |-> [its EXCEPT ![i].status = CONFIRMED,
                                  ![i].receipt = receipt,
                                  ![i].confirmed_at = t],
          txns |-> [txs EXCEPT ![its[i].transaction_id].mpesa_code = receipt,
                               ![its[i].transaction_id].payment_method = "mpesa"]]

\* MpesaPayment(mpesa_receipt_number=..., amount=..., is_matched=False)
NewPayment(receipt, amount) ==
    [receipt |-> receipt, amount |-> amount, is_matched |-> FALSE,
     matched_transaction_id |-> None, matched_intent_id |-> None,
     matched_by |-> None]

\* MpesaMatcher.create_unmatched_payment.  The insert of a NULL receipt number
\* violates nullable=False; every exception is rolled back and re-raised.
create_unmatched_payment(pays, receipt, amount, raises) ==
    IF raises
    THEN [raised |-> TRUE, payments |-> pays]
    ELSE IF \E k \in Idx(pays) : receipt # None /\ pays[k].receipt = receipt
    THEN [raised |-> FALSE, payments |-> pays]
    ELSE IF receipt = None
    THEN [raised |-> TRUE, payments |-> pays]
    ELSE [raised |-> FALSE, payments |-> Append(pays, NewPayment(receipt, amount))]

\* Faulty variant of the guards of manual_match: a matched payment is matched
\* again
ManualMatchRefused_NoMatchedCheck(pays, txs, p, t) ==
    p \notin Idx(pays) \/ t \notin DOMAIN txs

\* The guards of manual_match: payment missing, payment already matched,
\* transaction missing
ManualMatchRefused(pays, txs, p, t) ==
    \/ p \notin Idx(pays)
    \/ pays[p].is_matched
    \/ t \notin DOMAIN txs

\* Faulty variant of the linkage: the transaction id is not stored
MatchedPayment_NoTransaction(pay, t, user, i) ==
    [pay EXCEPT !.is_matched = TRUE, !.matched_by = user, !.matched_intent_id = i]

\* The linkage manual_match writes on the payment row
MatchedPayment(pay, t, user, i) ==
    [pay EXCEPT !.is_matched = TRUE,
                !.matched_transaction_id = t,
                !.matched_by = user,
                !.matched_intent_id = i]

\* MpesaMatcher.manual_match: the new tables and audit log, and the result
manual_match(its, txs, pays, p, t, user, t_now) ==
    LET unchanged == [ok |-> FALSE, intents |-> its, txns |-> txs,
                      payments |-> pays, audit |-> <<>>]
    IN
    IF ManualMatchRefused(pays, txs, p, t) THEN unchanged
    ELSE
        LET pend == {i \in Idx(its) : its[i].transaction_id = t /\ its[i].status = PENDING}
            i == IF pend = {} THEN None
                 ELSE CHOOSE x \in pend : \A y \in pend : x <= y
        IN
        [ok |-> TRUE,
         intents |-> IF i = None THEN its
                     ELSE [its EXCEPT ![i].status = CONFIRMED,
                                      ![i].receipt = pays[p].receipt,
                                      ![i].confirmed_at = t_now],
         txns |-> [txs EXCEPT ![t].mpesa_code = pays[p].receipt,
                              ![t].payment_method = "mpesa"],
         payments |-> [pays EXCEPT ![p] = MatchedPayment(pays[p], t, user, i)],
         audit |-> log_audit(<<>>, "MANUAL_MPESA_MATCH", 0, 0, "")]

\* get_mpesa_inbox: the unmatched statistics
RECURSIVE SumUnmatched(_, _)
SumUnmatched(pays, k) ==
    IF k = 0 THEN 0
    ELSE SumUnmatched(pays, k - 1)
         + (IF pays[k].is_matched THEN 0 ELSE pays[k].amount)

unmatched_count(pays) == Cardinality({k \in Idx(pays) : ~pays[k].is_matched})
unmatched_total(pays) == SumUnmatched(pays, Len(pays))

-----------------------------------------------------------------------------
(* Requests *)

NoAmount == 0 - 1     \* the callback carries no Amount item: Decimal("None") raises

\* A failure callback (ResultCode # 0) carries no CallbackMetadata; the handler
\* reads none of it on that path.
FAILURE_CODE == 1032

\* Where exceptions are raised while a callback is served: a set of sites.
\* "lookup": the first intent query; "commit": the commit of a FAILED
\* transition; "matcher": inside match_callback_to_intent; "unmatched": inside
\* create_unmatched_payment; "audit": the audit write of the except clause.
Callback_(ip, shape, rc, c, a, r, f) ==
    [ip |-> ip, shape |-> shape, result_code |-> rc, checkout |-> c, amount |-> a,
     receipt |-> r, faults |-> f]

\* The callbacks delivered to the model: every shape of payload, every
\* checkout id, the amounts around the tolerance band, and the exception
\* sites each kind of payload can reach.
CallbackRequests ==
    {Callback_("other", shape, 0, 1, 100, 1, {}) : shape \in {"ok", "nojson"}}
    \cup {Callback_("safaricom", "nojson", 0, None, NoAmount, None, f) :
            f \in {{}, {"audit"}}}
    \cup {Callback_("safaricom", "unparsable", 0, None, NoAmount, None, {})}
    \cup {Callback_("safaricom", "ok", rc, None, NoAmount, None, {}) :
            rc \in {0, FAILURE_CODE}}
    \cup {Callback_("safaricom", "ok", FAILURE_CODE, 1, NoAmount, None, f) :
            f \in {{"lookup"}, {"lookup", "audit"}}}
    \cup {Callback_("safaricom", "ok", FAILURE_CODE, c, NoAmount, None, f) :
            c \in CheckoutIds, f \in {{}, {"commit"}}}
    \cup {Callback_("safaricom", "ok", 0, c, a, 1, {}) :
            c \in CheckoutIds, a \in CallbackAmounts \cup {NoAmount}}
    \cup {Callback_("safaricom", "ok", 0, c, 100, 2, {}) : c \in CheckoutIds}
    \cup {Callback_("safaricom", "ok", 0, c, 100, 1, f) :
            c \in CheckoutIds, f \in {{"matcher"}, {"matcher", "unmatched"}}}
    \cup {Callback_("safaricom", "ok", 0, c, 100, None, {"matcher"}) : c \in CheckoutIds}
    \cup {Callback_("safaricom", "ok", 0, c, 102, 1, {"commit", "audit"}) :
            c \in CheckoutIds}

\* The response of a handler together with the tables it leaves behind
Outcome(its, txs, pays, aud, code, branch, raised) ==
    [intents |-> its, txns |-> txs, payments |-> pays, audit |-> aud,
     ResultCode |-> code, branch |-> branch, raised |-> raised]

\* except Exception as e: best-effort audit, then ResultCode 1
OnError(its, txs, pays, aud, site, audit_ok) ==
    Outcome(its, txs, pays,
            IF audit_ok THEN log_audit(aud, "MPESA_CALLBACK_ERROR", 0, 0, "")
                        ELSE aud,
            1, "error", site)

\* The success path of mpesa_callback (result_code == 0) for the intent i found
CallbackSuccessPath(cb, i) ==
    LET audit_ok == "audit" \notin cb.faults IN
    IF cb.amount = NoAmount
    THEN OnError(intents, txns, payments, <<>>, "amount", audit_ok)
    ELSE IF AmountMismatch(cb.amount, intents[i].amount)
    THEN LET aud == log_audit(<<>>, "MPESA_CALLBACK_AMOUNT_MISMATCH",
                              intents[i].amount, cb.amount, "")
         IN IF "commit" \in cb.faults
            THEN OnError(intents, txns, payments, aud, "commit", audit_ok)
            ELSE Outcome([intents EXCEPT ![i].status = FAILED,
                                         ![i].failure_reason = "Amount mismatch"],
                         txns, payments, aud, 1, "mismatch", "none")
    ELSE LET m == match_callback_to_intent(intents, txns, cb.checkout, cb.receipt, now,
                                           "matcher" \in cb.faults)
         IN IF m.matched # None
            THEN Outcome(m.intents, m.txns, payments, <<>>, 0, "confirmed", "none")
            ELSE LET u == create_unmatched_payment(payments, cb.receipt, cb.amount,
                                                   "unmatched" \in cb.faults)
                 IN IF u.raised
                    THEN OnError(m.intents, m.txns, u.payments, <<>>, "unmatched",
                                 audit_ok)
                    ELSE Outcome(m.intents, m.txns, u.payments, <<>>, 0, "unmatched",
                                 "matcher")

\* Faulty variant of the failure path: the FAILED transition is not committed
CallbackFailurePath_NoCommit(cb) ==
    Outcome(intents, txns, payments, <<>>, 0, "failed", "none")

\* The failure path of mpesa_callback (result_code != 0)
CallbackFailurePath(cb) ==
    LET i == IntentByCheckout(intents, cb.checkout) IN
    IF i = None
    THEN Outcome(intents, txns, payments, <<>>, 0, "failed", "none")
    ELSE IF "commit" \in cb.faults
    THEN OnError(intents, txns, payments, <<>>, "commit", "audit" \notin cb.faults)
    ELSE Outcome([intents EXCEPT ![i].status = FAILED,
                                 ![i].failure_reason = "result_desc"],
                 txns, payments, <<>>, 0, "failed", "none")

\* SECURITY CHECK 1 failed: the caller is not in the allowlist
RejectUnauthorized ==
    Outcome(intents, txns, payments,
            log_audit(<<>>, "MPESA_CALLBACK_REJECTED", 0, 0, "unauthorized_ip"),
            1, "unauthorized_ip", "none")

\* Faulty variant of the unknown-checkout branch: a success callback is filed
\* as an unmatched payment before the request is refused
UnknownCheckout_FilesPayment(cb) ==
    Outcome(intents, txns,
            IF cb.result_code = 0 /\ cb.amount # NoAmount
            THEN create_unmatched_payment(payments, cb.receipt, cb.amount, FALSE).payments
            ELSE payments,
            log_audit(<<>>, "MPESA_CALLBACK_UNKNOWN_REQUEST", 0, 0, ""),
            1, "unknown", "none")

\* if not existing_intent: audit, then "Unknown checkout request"
UnknownCheckout(cb) ==
    Outcome(intents, txns, payments,
            log_audit(<<>>, "MPESA_CALLBACK_UNKNOWN_REQUEST", 0, 0, ""),
            1, "unknown", "none")

\* the intent i found is already CONFIRMED or FAILED: audit, "Already processed"
ReplayDetected(cb, i) ==
    Outcome(intents, txns, payments,
            log_audit(<<>>, "MPESA_CALLBACK_REPLAY_DETECTED", 0, 0, intents[i].status),
            0, "replay", "none")

\* mpesa_callback
mpesa_callback(cb) ==
    LET i == IntentByCheckout(intents, cb.checkout)
        audit_ok == "audit" \notin cb.faults
    IN
    IF Unauthorized(cb.ip)
    THEN RejectUnauthorized
    ELSE IF cb.shape = "nojson"
    THEN OnError(intents, txns, payments, <<>>, "json", audit_ok)
    ELSE IF cb.shape = "unparsable"
    THEN Outcome(intents, txns, payments, <<>>, 1, "invalid_data", "none")
    ELSE IF cb.checkout = None
    THEN Outcome(intents, txns, payments, <<>>, 1, "missing_checkout", "none")
    ELSE IF "lookup" \in cb.faults
    THEN OnError(intents, txns, payments, <<>>, "lookup", audit_ok)
    ELSE IF i = None
    THEN UnknownCheckout(cb)
    ELSE IF IsReplay(intents[i].status)
    THEN ReplayDetected(cb, i)
    ELSE IF cb.result_code = 0
    THEN CallbackSuccessPath(cb, i)
    ELSE CallbackFailurePath(cb)

\* What happens to an STK push at the gateway: accepted, no access token,
\* transport error, or a response code other than "0"
GatewayOutcomes == {"ok", "no_token", "transport", "declined"}

\* Faulty variant of the gateway client: a declined push is reported as sent
initiate_stk_push_IgnoresCode(gateway) ==
    [success |-> gateway \in {"ok", "declined"},
     error |-> IF gateway \in {"ok", "declined"} THEN NoReason ELSE "gateway error"]

\* DarajaService.initiate_stk_push: every failure is returned with an error
\* text (carried as one text), none is raised
initiate_stk_push(gateway) ==
    [success |-> gateway = "ok",
     error |-> IF gateway = "ok" THEN NoReason ELSE "gateway error"]

\* initiate_mpesa_payment.  gateway: what happens to the STK push; an accepted
\* push comes back with a fresh CheckoutRequestID.
initiate_mpesa_payment(t, amount, gateway) ==
    LET rej(http, branch) == [intents |-> intents, http |-> http, branch |-> branch]
        fresh == [transaction_id |-> t, amount |-> amount, status |-> PENDING,
                  checkout |-> None, receipt |-> None, failure_reason |-> NoReason,
                  expires_at |-> now + TTL_SECONDS, confirmed_at |-> NoTime]
        stk_response == initiate_stk_push(gateway)
    IN
    IF amount <= 0 THEN rej(422, "validation")
    ELSE IF t \notin DOMAIN txns THEN rej(404, "not_found")
    ELSE IF ActiveIntentExists(intents, t) THEN rej(400, "conflict")
    ELSE IF ~stk_response.success
    THEN [intents |-> Append(intents,
                        [fresh EXCEPT !.status = FAILED,
                                      !.failure_reason = stk_response.error]),
          http |-> 500, branch |-> "gateway_failed"]
    ELSE [intents |-> Append(intents, [fresh EXCEPT !.checkout = Len(intents) + 1]),
          http |-> 200, branch |-> "created"]

\* get_payment_intent: lazy expiry on read
get_payment_intent(id) ==
    IF id \notin Idx(intents)
    THEN [intents |-> intents, http |-> 404, branch |-> "not_found"]
    ELSE IF is_expired(intents[id], now) /\ intents[id].status = PENDING
    THEN [intents |-> [intents EXCEPT ![id].status = EXPIRED],
          http |-> 200, branch |-> "expired_now"]
    ELSE [intents |-> intents, http |-> 200, branch |-> "read"]

-----------------------------------------------------------------------------
(* The state machine *)

\* The request served last and its response: the path the handler took and
\* the webhook's acknowledgement (ResultCode) or the status of an
\* authenticated endpoint (http), and whether an exception was raised while
\* it was served.
Request(op, branch, code, http, raised) ==
    [op |-> op, branch |-> branch, ResultCode |-> code, http |-> http,
     raised |-> raised]

NoRequest(op) == Request(op, "", 0 - 1, 0, FALSE)

\* Webhook handlers that can run side by side (worker processes), and the
\* position of one that is serving no request
Handlers == {"w1", "w2"}
Idle == [pc |-> "idle"]

\* The service after start-up: the sales in ids are in the ledger, nothing has
\* been paid, and MPESA_ALLOWED_IPS is one of the settings in ip_settings
Start(ids, ip_settings) ==
    /\ intents = <<>>
    /\ txns = [t \in ids |-> [mpesa_code |-> None,
                              payment_method |-> IF t = 1 THEN "mpesa" ELSE "cash"]]
    /\ payments = <<>>
    /\ audit = <<>>
    /\ now = 0
    /\ allowed_ips \in ip_settings
    /\ audit_logs = [u \in Users |-> 0]
    /\ alerts = <<>>
    /\ last = NoRequest("init")
    /\ handlers = [h \in Handlers |-> Idle]

Init == Start(PaidTxns, {{"safaricom"}})

Initiate ==
    \E t \in PaidTxns \cup {MissingTxn}, amount \in IntentAmounts \cup {0},
       gateway \in GatewayOutcomes :
        LET r == initiate_mpesa_payment(t, amount, gateway) IN
        /\ Len(r.intents) <= MaxIntents
        /\ intents' = r.intents
        /\ audit' = <<>>
        /\ last' = Request("initiate", r.branch, 0 - 1, r.http, FALSE)
        /\ UNCHANGED <<txns, payments, now, allowed_ips, audit_logs, alerts, handlers>>

Callback ==
    \E cb \in CallbackRequests :
        LET r == mpesa_callback(cb) IN
        /\ Len(r.payments) <= MaxPayments
        /\ intents' = r.intents
        /\ txns' = r.txns
        /\ payments' = r.payments
        /\ audit' = r.audit
        /\ last' = Request("callback", r.branch, r.ResultCode, 200, r.raised # "none")
        /\ UNCHANGED <<now, allowed_ips, audit_logs, alerts, handlers>>

StatusRead ==
    \E id \in 1..MaxIntents :
        LET r == get_payment_intent(id) IN
        /\ intents' = r.intents
        /\ audit' = <<>>
        /\ last' = Request("status", r.branch, 0 - 1, r.http, FALSE)
        /\ UNCHANGED <<txns, payments, now, allowed_ips, audit_logs, alerts, handlers>>

ManualMatch ==
    \E p \in 1..MaxPayments, t \in DOMAIN txns \cup {MissingTxn}, user \in Users :
        LET r == manual_match(intents, txns, payments, p, t, user, now) IN
        /\ intents' = r.intents
        /\ txns' = r.txns
        /\ payments' = r.payments
        /\ audit' = r.audit
        /\ last' = Request("manual_match", IF r.ok THEN "matched" ELSE "rejected", 0 - 1,
                           IF r.ok THEN 200 ELSE 400, FALSE)
        /\ UNCHANGED <<now, allowed_ips, audit_logs, alerts, handlers>>

\* Time passes between requests
Tick ==
    /\ now' \in {t \in Times : t > now}
    /\ audit' = <<>>
    /\ last' = NoRequest("tick")
    /\ UNCHANGED <<intents, txns, payments, allowed_ips, audit_logs, alerts, handlers>>

Next == Initiate \/ Callback \/ StatusRead \/ ManualMatch \/ Tick

Spec == Init /\ [][Next]_vars

-----------------------------------------------------------------------------
(* Webhook handlers side by side.  A handler is a sequence of datastore      *)
(* statements; another worker's statements can run between any two of them.  *)
(* No query of mpesa_callback or of the matcher locks a row.                 *)

\* The deliveries that race: success and failure callbacks for checkout id 1,
\* with and without an exception inside the matcher
RaceCallbacks ==
    {cb \in CallbackRequests :
        /\ cb.ip = "safaricom" /\ cb.shape = "ok" /\ cb.checkout = 1
        /\ cb.amount \in {100, NoAmount}
        /\ cb.faults \in {{}, {"matcher"}}
        /\ (cb.result_code = 0 => cb.amount = 100 /\ cb.receipt # None)}

\* Faulty variant of the storage constraint: the receipt column is not unique
UniqueViolation_NoConstraint(pays, receipt) == FALSE

\* mpesa_receipt_number is unique=True: the insert of a second row with the
\* same receipt number raises IntegrityError at commit
UniqueViolation(pays, receipt) ==
    \E k \in Idx(pays) : pays[k].receipt = receipt

\* The position of a handler that has answered, with its acknowledgement and
\* the place an exception was raised ("none" if none was)
Done(code, site) == [pc |-> "done", ResultCode |-> code, site |-> site]

\* A handler answers: its audit rows and its response become the last ones
Answer(h, r) ==
    /\ audit' = r.audit
    /\ last' = Request("callback", r.branch, r.ResultCode, 200, r.raised # "none")
    /\ handlers' = [handlers EXCEPT ![h] = Done(r.ResultCode, r.raised)]

\* mpesa_callback up to the replay check: the allowlist, the payload, the
\* intent query and the test of its status.  A request that is refused or is a
\* replay is answered here; any other goes on with the intent it has loaded.
Receive(h) ==
    \E cb \in RaceCallbacks :
        LET i == IntentByCheckout(intents, cb.checkout) IN
        /\ handlers[h].pc \in {"idle", "done"}
        /\ IF \/ Unauthorized(cb.ip) \/ cb.shape # "ok" \/ cb.checkout = None
              \/ "lookup" \in cb.faults \/ i = None
           THEN /\ Answer(h, mpesa_callback(cb))
                /\ UNCHANGED <<intents, txns, payments, now, allowed_ips,
                               audit_logs, alerts>>
           ELSE IF IsReplay(intents[i].status)
           THEN /\ Answer(h, mpesa_callback(cb))
                /\ UNCHANGED <<intents, txns, payments, now, allowed_ips,
                               audit_logs, alerts>>
           ELSE /\ handlers' = [handlers EXCEPT ![h] =
                                    [pc |-> "loaded", cb |-> cb, i |-> i]]
                /\ UNCHANGED <<intents, txns, payments, audit, now, allowed_ips,
                               audit_logs, alerts, last>>

\* mpesa_callback after the replay check: the amount check, then the matcher's
\* unconditional write of CONFIRMED, or the failure path's unconditional write
\* of FAILED, on the rows as they are now.  When the matcher returns None the
\* handler goes on to create_unmatched_payment.
Process(h) ==
    /\ handlers[h].pc = "loaded"
    /\ LET cb == handlers[h].cb
           i == handlers[h].i
           goes_on == /\ cb.result_code = 0
                      /\ cb.amount # NoAmount
                      /\ ~AmountMismatch(cb.amount, intents[i].amount)
                      /\ match_callback_to_intent(intents, txns, cb.checkout,
                              cb.receipt, now, "matcher" \in cb.faults).matched = None
       IN IF goes_on
          THEN /\ handlers' = [handlers EXCEPT ![h].pc = "filing"]
               /\ UNCHANGED <<intents, txns, payments, audit, now, allowed_ips,
                              audit_logs, alerts, last>>
          ELSE LET r == IF cb.result_code = 0 THEN CallbackSuccessPath(cb, i)
                                              ELSE CallbackFailurePath(cb)
               IN /\ intents' = r.intents
                  /\ txns' = r.txns
                  /\ Answer(h, r)
                  /\ UNCHANGED <<payments, now, allowed_ips, audit_logs, alerts>>

\* create_unmatched_payment, the query for an existing row: a row with the
\* receipt number is returned and the callback acknowledged
CheckExisting(h) ==
    /\ handlers[h].pc = "filing"
    /\ LET cb == handlers[h].cb IN
       IF \E k \in Idx(payments) : payments[k].receipt = cb.receipt
       THEN /\ Answer(h, Outcome(intents, txns, payments, <<>>, 0, "unmatched", "none"))
            /\ UNCHANGED <<intents, txns, payments, now, allowed_ips, audit_logs, alerts>>
       ELSE /\ handlers' = [handlers EXCEPT ![h].pc = "inserting"]
            /\ UNCHANGED <<intents, txns, payments, audit, now, allowed_ips,
                           audit_logs, alerts, last>>

\* create_unmatched_payment, the insert and its commit: a uniqueness violation
\* is rolled back and re-raised, and mpesa_callback's except clause answers
Insert(h) ==
    /\ handlers[h].pc = "inserting"
    /\ LET cb == handlers[h].cb IN
       IF UniqueViolation(payments, cb.receipt)
       THEN /\ Answer(h, OnError(intents, txns, payments, <<>>, "unique",
                                 "audit" \notin cb.faults))
            /\ UNCHANGED <<intents, txns, payments, now, allowed_ips, audit_logs, alerts>>
       ELSE LET pays == Append(payments, NewPayment(cb.receipt, cb.amount))
            IN /\ Len(pays) <= MaxPayments
               /\ payments' = pays
               /\ Answer(h, Outcome(intents, txns, pays, <<>>, 0, "unmatched", "none"))
               /\ UNCHANGED <<intents, txns, now, allowed_ips, audit_logs, alerts>>

NextRace ==
    \/ Initiate
    \/ \E h \in Handlers : Receive(h)
    \/ \E h \in Handlers : Process(h)
    \/ \E h \in Handlers : CheckExisting(h)
    \/ \E h \in Handlers : Insert(h)

SpecRace == Init /\ [][NextRace]_vars

\* The ledger with a second sale, one that is not paid through M-Pesa and that
\* a payment of the inbox can be matched to by hand
InitLedger == Start(TxnIds, {{"safaricom"}})

SpecLedger == InitLedger /\ [][Next]_vars

\* The webhook under either deployment: MPESA_ALLOWED_IPS empty (no
\* allowlist) or naming the provider's address
InitAllowlist == Start(PaidTxns, {{}, {"safaricom"}})

\* The public side of the service: payments are initiated and the provider
\* calls back, while time passes
NextWebhook == Initiate \/ Callback \/ Tick

SpecAllowlist == InitAllowlist /\ [][NextWebhook]_vars

-----------------------------------------------------------------------------
(* The inbox: candidate transactions for an unmatched payment.  Here the     *)
(* rows of transactions also carry final_amount (cents) and created_at       *)
(* (seconds), the two columns the candidate filter reads.                    *)

AMOUNT_TOLERANCE == 500        \* Decimal("5.00"), in cents
TIME_WINDOW_MINUTES == 30

\* Faulty variant of the candidate filter: the upper ends of the amount band
\* and of the time window are excluded
find_potential_matches_Exclusive(txs, amount, transaction_date, raises) ==
    IF raises THEN {}
    ELSE {t \in DOMAIN txs :
            /\ txs[t].payment_method = "mpesa"
            /\ txs[t].final_amount >= amount - AMOUNT_TOLERANCE
            /\ txs[t].final_amount < amount + AMOUNT_TOLERANCE
            /\ txs[t].created_at >= transaction_date - TIME_WINDOW_MINUTES * 60
            /\ txs[t].created_at < transaction_date + TIME_WINDOW_MINUTES * 60
            /\ txs[t].mpesa_code = None}

\* MpesaMatcher.find_potential_matches: one query, no write.  raises: the
\* query fails; the except clause returns the empty list.
find_potential_matches(txs, amount, transaction_date, raises) ==
    IF raises THEN {}
    ELSE {t \in DOMAIN txs :
            /\ txs[t].payment_method = "mpesa"
            /\ txs[t].final_amount >= amount - AMOUNT_TOLERANCE
            /\ txs[t].final_amount <= amount + AMOUNT_TOLERANCE
            /\ txs[t].created_at >= transaction_date - TIME_WINDOW_MINUTES * 60
            /\ txs[t].created_at <= transaction_date + TIME_WINDOW_MINUTES * 60
            /\ txs[t].mpesa_code = None}

\* The payment whose candidates are looked up: KES 10.00, paid one hour in
PaidAmount == 1000
PaidAt == 3600

\* Prices and creation times around the ends of the band and of the window:
\* 5.01 and 5.00 below, equal, 5.00, 5.01 and 6.00 above; 30 minutes before
\* and one second earlier, the same instant, 29, 30 and 31 minutes after and
\* one second past 30
CandidatePrices ==
    {PaidAmount - 501, PaidAmount - 500, PaidAmount, PaidAmount + 500,
     PaidAmount + 501, PaidAmount + 600}
CandidateTimes ==
    {PaidAt - 1801, PaidAt - 1800, PaidAt, PaidAt + 1740, PaidAt + 1800,
     PaidAt + 1801, PaidAt + 1860}

\* Transaction 1 is any sale around the band; transaction 2 is priced 5.00
\* above the payment and was created 29 minutes after it.  One unmatched
\* payment is in the inbox.
InitInbox ==
    /\ intents = <<>>
    /\ \E m \in {"mpesa", "cash"}, price \in CandidatePrices, at \in CandidateTimes :
        txns = [t \in TxnIds |->
                  IF t = 1
                  THEN [mpesa_code |-> None, payment_method |-> m,
                        final_amount |-> price, created_at |-> at]
                  ELSE [mpesa_code |-> None, payment_method |-> "mpesa",
                        final_amount |-> PaidAmount + 500,
                        created_at |-> PaidAt + 1740]]
    /\ payments = <<NewPayment(1, PaidAmount)>>
    /\ audit = <<>>
    /\ now = 0
    /\ allowed_ips = {"safaricom"}
    /\ audit_logs = [u \in Users |-> 0]
    /\ alerts = <<>>
    /\ last = NoRequest("init")
    /\ handlers = [h \in Handlers |-> Idle]

\* A call of find_potential_matches for a payment of the given amount made at
\* PaidAt; the candidates are returned to the operator
PotentialMatches ==
    \E amount \in {PaidAmount, PaidAmount + 100}, raises \in BOOLEAN :
        /\ last' = [op |-> "potential_matches", amount |-> amount,
                    transaction_date |-> PaidAt, raised |-> raises,
                    returned |-> find_potential_matches(txns, amount, PaidAt, raises)]
        /\ audit' = <<>>
        /\ UNCHANGED <<intents, txns, payments, now, allowed_ips, audit_logs,
                       alerts, handlers>>

NextInbox == PotentialMatches \/ ManualMatch

SpecInbox == InitInbox /\ [][NextInbox]_vars

-----------------------------------------------------------------------------
(* Sales: create_transaction and void_transaction.  Here a row of            *)
(* transactions carries every column a request of this module reads:         *)
(* transaction_number, final_amount, payment_method, mpesa_code, status,     *)
(* created_at and client_generated_id.  The ids of the rows are 1, 2, ... in *)
(* insertion order.  Shift totals, stock movements and the discount audit    *)
(* are kept in other tables and are not carried.                             *)

MaxSales == 2       \* rows of transactions created through create_transaction

\* total_amount: the sum of quantity * unit_price over the items
RECURSIVE total_of(_)
total_of(items) ==
    IF items = <<>> THEN 0
    ELSE Head(items).quantity * Head(items).unit_price + total_of(Tail(items))

\* db.query(func.max(Transaction.transaction_number)).scalar() or 0
max_number(txs) ==
    IF DOMAIN txs = {} THEN 0
    ELSE CHOOSE n \in {txs[k].transaction_number : k \in DOMAIN txs} :
            \A k \in DOMAIN txs : txs[k].transaction_number <= n

\* TransactionCreate(**payload): the schema declares items, payment_method,
\* mpesa_code, customer_id and discount_amount; any other key of the payload
\* (client_generated_id, offline_receipt_number) is dropped by the model class
TransactionCreate(payload) ==
    [items |-> payload.items, payment_method |-> payload.payment_method,
     mpesa_code |-> payload.mpesa_code, discount_amount |-> payload.discount_amount]

\* max_number + 1
next_number(txs) == max_number(txs) + 1

\* create_transaction.  has_open_shift: the caller has an open shift;
\* may_discount: the caller's role has APPLY_DISCOUNT.
create_transaction(txs, transaction_data, has_open_shift, may_discount, t_now) ==
    IF ~has_open_shift
    THEN [http |-> 400, id |-> None, txns |-> txs]
    ELSE IF transaction_data.discount_amount > 0 /\ ~may_discount
    THEN [http |-> 403, id |-> None, txns |-> txs]
    ELSE LET total_amount == total_of(transaction_data.items)
             id == Cardinality(DOMAIN txs) + 1
             row == [transaction_number |-> next_number(txs),
                     final_amount |-> total_amount - transaction_data.discount_amount,
                     payment_method |-> transaction_data.payment_method,
                     mpesa_code |-> transaction_data.mpesa_code,
                     status |-> "completed",
                     created_at |-> t_now,
                     client_generated_id |-> None]
         IN [http |-> 201, id |-> id,
             txns |-> [k \in DOMAIN txs \cup {id} |->
                          IF k = id THEN row ELSE txs[k]]]

\* void_transaction
void_transaction(txs, t) ==
    IF t \notin DOMAIN txs THEN [http |-> 404, txns |-> txs]
    ELSE IF txs[t].status # "completed" THEN [http |-> 400, txns |-> txs]
    ELSE [http |-> 200, txns |-> [txs EXCEPT ![t].status = "voided"]]

\* The payloads the clients send: one service item of KES 1.00 or KES 2.00,
\* paid in cash or through M-Pesa, with or without a discount of KES 0.50,
\* and with no client_generated_id or one of two
ClientIds == {1, 2}
SalePayloads ==
    {[items |-> <<[quantity |-> 1, unit_price |-> price]>>,
      payment_method |-> m, mpesa_code |-> None, discount_amount |-> d,
      client_generated_id |-> c] :
        price \in {100, 200}, m \in {"cash", "mpesa"}, d \in {0, 50},
        c \in ClientIds \cup {None}}

\* The service with no sale recorded yet
InitSales ==
    /\ intents = <<>>
    /\ txns = <<>>
    /\ payments = <<>>
    /\ audit = <<>>
    /\ now = 0
    /\ allowed_ips = {"safaricom"}
    /\ audit_logs = [u \in Users |-> 0]
    /\ alerts = <<>>
    /\ last = NoRequest("init")
    /\ handlers = [h \in Handlers |-> Idle]

\* POST /transactions/
CreateTransaction ==
    \E payload \in SalePayloads, has_open_shift \in BOOLEAN, may_discount \in BOOLEAN :
        LET r == create_transaction(txns, TransactionCreate(payload), has_open_shift,
                                    may_discount, now)
        IN
        /\ Cardinality(DOMAIN r.txns) <= MaxSales
        /\ txns' = r.txns
        /\ audit' = <<>>
        /\ last' = [op |-> "create_transaction", http |-> r.http,
                    client_generated_id |-> payload.client_generated_id,
                    id |-> r.id]
        /\ UNCHANGED <<intents, payments, now, allowed_ips, audit_logs, alerts, handlers>>

\* POST /transactions/{id}/void
VoidTransaction ==
    \E t \in 1..MaxSales :
        LET r == void_transaction(txns, t) IN
        /\ txns' = r.txns
        /\ audit' = <<>>
        /\ last' = [op |-> "void_transaction", http |-> r.http, id |-> t]
        /\ UNCHANGED <<intents, payments, now, allowed_ips, audit_logs, alerts, handlers>>

NextSales == CreateTransaction \/ VoidTransaction

SpecSales == InitSales /\ [][NextSales]_vars

-----------------------------------------------------------------------------
(* The daily reconciliation report.  Here the rows of transactions also      *)
(* carry final_amount, status and created_at, the columns the report reads.  *)

SECONDS_PER_DAY == 86400

\* datetime.combine(report_date, datetime.min.time()) and
\* datetime.combine(report_date, datetime.max.time()), to the second
date_start(day) == day * SECONDS_PER_DAY
date_end(day) == day * SECONDS_PER_DAY + (SECONDS_PER_DAY - 1)

\* func.sum over the rows k of a table that pass a filter; SQL's sum over no
\* row is NULL, which the handler replaces by Decimal("0")
RECURSIVE SumOver(_, _, _)
SumOver(amount_of, passes, n) ==
    IF n = 0 THEN 0
    ELSE SumOver(amount_of, passes, n - 1) + (IF passes[n] THEN amount_of[n] ELSE 0)

\* Decimal division of two amounts, followed by the multiplication by 100.
\* The quotient is developed digit by digit to four decimal places, which is
\* the percentage to two places; exact tells whether the development ended
\* there (the Decimal context carries 28 significant digits, so a quotient
\* that ends within four places is computed without rounding).
PercentOf(variance, total) ==
    LET n == Abs(variance)
        q == n \div total
        r0 == n % total
        d1 == (r0 * 10) \div total
        r1 == (r0 * 10) % total
        d2 == (r1 * 10) \div total
        r2 == (r1 * 10) % total
        d3 == (r2 * 10) \div total
        r3 == (r2 * 10) % total
        d4 == (r3 * 10) \div total
        r4 == (r3 * 10) % total
        digits == q * 10000 + d1 * 1000 + d2 * 100 + d3 * 10 + d4
    IN [hundredths |-> IF variance < 0 THEN 0 - digits ELSE digits,
        exact |-> r4 = 0]

\* variance_amount = confirmed_total - expected_total;
\* variance_percentage = (variance_amount / expected_total * 100)
\*                       if expected_total > 0 else Decimal("0")
Variance(confirmed_total, expected_total) ==
    LET variance_amount == confirmed_total - expected_total IN
    [variance_amount |-> variance_amount,
     variance_percentage |->
        IF expected_total > 0 THEN PercentOf(variance_amount, expected_total)
        ELSE [hundredths |-> 0, exact |-> TRUE]]

\* get_reconciliation_report, the part the variance is computed from: the
\* COMPLETED M-Pesa sales created on the day and the intents CONFIRMED on it.
\* The handler only queries.
get_reconciliation_report(day) ==
    LET tx == [k \in 1..Cardinality(DOMAIN txns) |-> txns[k]]
        expected == [k \in DOMAIN tx |->
                        /\ tx[k].payment_method = "mpesa"
                        /\ tx[k].status = "completed"
                        /\ tx[k].created_at >= date_start(day)
                        /\ tx[k].created_at <= date_end(day)]
        confirmed == [i \in Idx(intents) |->
                        /\ intents[i].status = CONFIRMED
                        /\ intents[i].confirmed_at >= date_start(day)
                        /\ intents[i].confirmed_at <= date_end(day)]
        expected_total == SumOver([k \in DOMAIN tx |-> tx[k].final_amount],
                                  expected, Len(tx))
        confirmed_total == SumOver([i \in Idx(intents) |-> intents[i].amount],
                                   confirmed, Len(intents))
        v == Variance(confirmed_total, expected_total)
    IN [expected_mpesa_count |-> Cardinality({k \in DOMAIN tx : expected[k]}),
        expected_mpesa_total |-> expected_total,
        confirmed_count |-> Cardinality({i \in Idx(intents) : confirmed[i]}),
        confirmed_total |-> confirmed_total,
        variance_amount |-> v.variance_amount,
        variance_percentage |-> v.variance_percentage]

\* The amounts customers are asked for: KES 9,800.00 and KES 200.00
SaleAmounts == {980000, 20000}
ReportDays == {0, 1}

\* A sale: one item at the given price
Sale(price, m, discount) ==
    TransactionCreate([items |-> <<[quantity |-> 1, unit_price |-> price]>>,
                       payment_method |-> m, mpesa_code |-> None,
                       discount_amount |-> discount, client_generated_id |-> None])

\* The second day of trading.  Two sales are in the ledger, both recorded by
\* create_transaction: one of KES 2,500.00 made yesterday or today, in cash or
\* through M-Pesa, with no discount or with a discount of KES 5,000.00; and
\* one of KES 10,000.00 through M-Pesa made today, which may have been voided.
InitReport ==
    /\ intents = <<>>
    /\ \E m \in {"mpesa", "cash"}, discount \in {0, 500000}, d \in ReportDays,
          voided \in BOOLEAN :
        LET first == create_transaction(<<>>, Sale(250000, m, discount), TRUE, TRUE,
                                        date_start(d)).txns
            both == create_transaction(first, Sale(1000000, "mpesa", 0), TRUE, TRUE,
                                       SECONDS_PER_DAY).txns
        IN txns = IF voided THEN void_transaction(both, 2).txns ELSE both
    /\ payments = <<>>
    /\ audit = <<>>
    /\ now = SECONDS_PER_DAY
    /\ allowed_ips = {"safaricom"}
    /\ audit_logs = [u \in Users |-> 0]
    /\ alerts = <<>>
    /\ last = NoRequest("init")
    /\ handlers = [h \in Handlers |-> Idle]

\* initiate_mpesa_payment for one of the sales, accepted by the gateway
InitiateSale ==
    \E t \in DOMAIN txns, amount \in SaleAmounts :
        LET r == initiate_mpesa_payment(t, amount, "ok") IN
        /\ Len(r.intents) <= MaxIntents
        /\ intents' = r.intents
        /\ audit' = <<>>
        /\ last' = Request("initiate", r.branch, 0 - 1, r.http, FALSE)
        /\ UNCHANGED <<txns, payments, now, allowed_ips, audit_logs, alerts, handlers>>

\* The provider reports an intent as paid in full, or as failed
ProviderCallback ==
    \E i \in Idx(intents), rc \in {0, FAILURE_CODE} :
        LET cb == Callback_("safaricom", "ok", rc, intents[i].checkout,
                            intents[i].amount, 1, {})
            r == mpesa_callback(cb)
        IN
        /\ intents' = r.intents
        /\ txns' = r.txns
        /\ payments' = r.payments
        /\ audit' = r.audit
        /\ last' = Request("callback", r.branch, r.ResultCode, 200, r.raised # "none")
        /\ UNCHANGED <<now, allowed_ips, audit_logs, alerts, handlers>>

\* GET /reconciliation for a day
Reconciliation ==
    \E day \in ReportDays :
        /\ last' = [op |-> "reconciliation", day |-> day,
                    report |-> get_reconciliation_report(day)]
        /\ audit' = <<>>
        /\ UNCHANGED <<intents, txns, payments, now, allowed_ips, audit_logs,
                       alerts, handlers>>

NextReport == InitiateSale \/ ProviderCallback \/ Reconciliation

SpecReport == InitReport /\ [][NextReport]_vars

-----------------------------------------------------------------------------
(* Alert detection: check_void_refund_abuse over the void / refund rows of   *)
(* audit_logs written today.  An alert row carries its type, severity,       *)
(* status and the JSON document related_entity; all of it happens on one     *)
(* day.                                                                      *)

MaxVoids == 6       \* void / refund audit rows per user and day
MaxAlerts == 2      \* rows of alerts

VOID_REFUND_MEDIUM == 5
VOID_REFUND_HIGH == 10
VOID_REFUND_CRITICAL == 15

Staff == {1, 2}

NoSeverity == "none"    \* severity = None

\* severity of a day's count of voids and refunds; none below the thresholds
Severity(count) ==
    IF count >= VOID_REFUND_CRITICAL THEN "critical"
    ELSE IF count >= VOID_REFUND_HIGH THEN "high"
    ELSE IF count >= VOID_REFUND_MEDIUM THEN "medium"
    ELSE NoSeverity

\* related_entity[key].astext: the text of a key of a JSON document, NULL
\* (None) for a key the document does not have
astext(document, key) ==
    IF key \in DOMAIN document THEN document[key] ELSE None

\* Alert(type=VOID_ABUSE, severity=..., related_entity={"type": "user",
\* "id": str(user_id), "name": username}); status defaults to OPEN
VoidAbuseAlert(user_id, severity) ==
    [type |-> "void_abuse", severity |-> severity, status |-> "open",
     related_entity |-> [type |-> "user", id |-> user_id, name |-> user_id]]

\* The query for an alert of the user that exists already: type VOID_ABUSE,
\* related_entity['user_id'].astext == str(user_id), created today, status
\* not RESOLVED.  A comparison with NULL is not true.
ExistingAlert(als, user_id) ==
    \E k \in Idx(als) :
        /\ als[k].type = "void_abuse"
        /\ astext(als[k].related_entity, "user_id") # None
        /\ astext(als[k].related_entity, "user_id") = user_id
        /\ als[k].status # "resolved"

\* The loop of check_void_refund_abuse over the users of the grouped query, in
\* the order of their ids: created is the list returned
RECURSIVE CheckUsers(_, _, _, _)
CheckUsers(users, logs, als, created) ==
    IF users = {} THEN [alerts |-> als, created |-> created]
    ELSE LET u == CHOOSE x \in users : \A y \in users : x <= y
             severity == Severity(logs[u])
         IN IF severity # NoSeverity /\ ~ExistingAlert(als, u)
            THEN CheckUsers(users \ {u}, logs,
                            Append(als, VoidAbuseAlert(u, severity)),
                            Append(created, VoidAbuseAlert(u, severity)))
            ELSE CheckUsers(users \ {u}, logs, als, created)

\* AlertEngine.check_void_refund_abuse: the users with a void / refund row
\* today are counted, and an alert is added for each one over a threshold
\* that has none
check_void_refund_abuse(logs, als) ==
    CheckUsers({u \in DOMAIN logs : logs[u] > 0}, logs, als, <<>>)

\* resolve_alert
resolve_alert(als, k) ==
    IF k \notin Idx(als) THEN [http |-> 404, alerts |-> als]
    ELSE IF als[k].status = "resolved" THEN [http |-> 400, alerts |-> als]
    ELSE [http |-> 200, alerts |-> [als EXCEPT ![k].status = "resolved"]]

\* The service with no void, no refund and no alert today
InitAlerts ==
    /\ intents = <<>>
    /\ txns = <<>>
    /\ payments = <<>>
    /\ audit = <<>>
    /\ now = 0
    /\ allowed_ips = {"safaricom"}
    /\ last = NoRequest("init")
    /\ handlers = [h \in Handlers |-> Idle]
    /\ audit_logs = [u \in Staff |-> 0]
    /\ alerts = <<>>

\* A user voids or refunds a transaction: one more VOID_TRANSACTION or
\* REFUND_TRANSACTION row of that user
LogVoid ==
    \E u \in Staff :
        /\ audit_logs[u] < MaxVoids
        /\ audit_logs' = [audit_logs EXCEPT ![u] = @ + 1]
        /\ last' = [op |-> "void", user_id |-> u]
        /\ UNCHANGED <<intents, txns, payments, audit, now, allowed_ips, handlers,
                       alerts>>

\* A run of the detection rule
CheckVoidRefundAbuse ==
    LET r == check_void_refund_abuse(audit_logs, alerts) IN
    /\ Len(r.alerts) <= MaxAlerts
    /\ alerts' = r.alerts
    /\ last' = [op |-> "check_void_refund_abuse", returned |-> r.created]
    /\ UNCHANGED <<intents, txns, payments, audit, now, allowed_ips, handlers,
                   audit_logs>>

\* POST /alerts/{alert_id}/resolve
ResolveAlert ==
    \E k \in 1..MaxAlerts :
        LET r == resolve_alert(alerts, k) IN
        /\ alerts' = r.alerts
        /\ last' = [op |-> "resolve_alert", http |-> r.http]
        /\ UNCHANGED <<intents, txns, payments, audit, now, allowed_ips, handlers,
                       audit_logs>>

NextAlerts == LogVoid \/ CheckVoidRefundAbuse \/ ResolveAlert

SpecAlerts == InitAlerts /\ [][NextAlerts]_vars

-----------------------------------------------------------------------------
(* Units of work.  The matcher and manual_match change rows of a SQLAlchemy  *)
(* session one attribute at a time and reach the datastore with one          *)
(* db.commit(); until then the changes are pending in the session's          *)
(* transaction.  Here the tables are the committed rows and a handler        *)
(* carries its pending writes.                                               *)

\* A session in which nothing is pending: per table, the rows written
NoWrites == [intents |-> <<>>, txns |-> <<>>, payments |-> <<>>]

\* The rows of a table after the writes of a session reached it
Apply(table, writes) ==
    [k \in DOMAIN table |-> IF k \in DOMAIN writes THEN writes[k] ELSE table[k]]

\* A row is changed in the session
Write(writes, k, row) ==
    [j \in DOMAIN writes \cup {k} |-> IF j = k THEN row ELSE writes[j]]

\* The committed rows
Database == [intents |-> intents, txns |-> txns, payments |-> payments]

\* db.commit(): every pending write becomes durable, in one transaction
commit(db, pend) ==
    [intents |-> Apply(db.intents, pend.intents),
     txns |-> Apply(db.txns, pend.txns),
     payments |-> Apply(db.payments, pend.payments)]

\* Faulty variant of the rollback: every statement is committed as it is issued
rollback_Autocommit(db, pend) == commit(db, pend)

\* db.rollback(), and the end of a transaction whose process died: no pending
\* write reaches the tables
rollback(db, pend) == db

\* The success callbacks of the provider that are served in steps
SessionCallbacks ==
    {cb \in CallbackRequests :
        /\ cb.ip = "safaricom" /\ cb.shape = "ok" /\ cb.result_code = 0
        /\ cb.amount = 100 /\ cb.receipt # None /\ cb.faults = {}}

\* The position of a handler whose manual_match(p, t) has returned ok
Returned(ok, p, t) == [pc |-> "done", ok |-> ok, p |-> p, t |-> t]

\* The position of a handler inside a unit of work
InSession(h) == handlers[h].pc \notin {"idle", "done"}

\* mpesa_callback up to the matcher's query: the callback passes the checks of
\* the webhook and the matcher finds the intent
MatcherQuery(h) ==
    \E cb \in SessionCallbacks :
        LET i == IntentByCheckout(intents, cb.checkout) IN
        /\ ~InSession(h)
        /\ i # None
        /\ ~IsReplay(intents[i].status)
        /\ ~AmountMismatch(cb.amount, intents[i].amount)
        /\ handlers' = [handlers EXCEPT ![h] =
                            [pc |-> "matcher_intent", cb |-> cb, i |-> i,
                             pend |-> NoWrites]]
        /\ UNCHANGED <<intents, txns, payments, audit, now, allowed_ips,
                       audit_logs, alerts, last>>

\* match_callback_to_intent: intent.status = CONFIRMED and the confirmation data
MatcherWriteIntent(h) ==
    /\ handlers[h].pc = "matcher_intent"
    /\ LET s == handlers[h]
           row == [intents[s.i] EXCEPT !.status = CONFIRMED,
                                       !.receipt = s.cb.receipt,
                                       !.confirmed_at = now]
       IN handlers' = [handlers EXCEPT
                          ![h].pc = "matcher_txn",
                          ![h].pend.intents = Write(s.pend.intents, s.i, row)]
    /\ UNCHANGED <<intents, txns, payments, audit, now, allowed_ips,
                   audit_logs, alerts, last>>

\* match_callback_to_intent: transaction.mpesa_code and payment_method
MatcherWriteTransaction(h) ==
    /\ handlers[h].pc = "matcher_txn"
    /\ LET s == handlers[h]
           t == intents[s.i].transaction_id
           row == [txns[t] EXCEPT !.mpesa_code = s.cb.receipt,
                                  !.payment_method = "mpesa"]
       IN handlers' = [handlers EXCEPT
                          ![h].pc = "matcher_commit",
                          ![h].pend.txns = Write(s.pend.txns, t, row)]
    /\ UNCHANGED <<intents, txns, payments, audit, now, allowed_ips,
                   audit_logs, alerts, last>>

\* match_callback_to_intent: an exception inside the try block.  The except
\* clause rolls back and returns None, and mpesa_callback goes on to
\* create_unmatched_payment.
MatcherRaise(h) ==
    /\ handlers[h].pc \in {"matcher_intent", "matcher_txn", "matcher_commit"}
    /\ LET s == handlers[h]
           db == rollback(Database, s.pend)
           u == create_unmatched_payment(db.payments, s.cb.receipt, s.cb.amount, FALSE)
       IN /\ Len(u.payments) <= MaxPayments
          /\ intents' = db.intents
          /\ txns' = db.txns
          /\ payments' = u.payments
          /\ audit' = <<>>
          /\ last' = Request("callback", "unmatched", 0, 200, TRUE)
          /\ handlers' = [handlers EXCEPT ![h] = Done(0, "matcher")]
    /\ UNCHANGED <<now, allowed_ips, audit_logs, alerts>>

\* manual_match up to its writes: the payment query, the is_matched test and
\* the transaction query.  A refused call returns False.
ManualLoad(h) ==
    \E p \in 1..MaxPayments, t \in DOMAIN txns \cup {MissingTxn}, user \in Users :
        /\ ~InSession(h)
        /\ IF ManualMatchRefused(payments, txns, p, t)
           THEN /\ handlers' = [handlers EXCEPT ![h] = Returned(FALSE, p, t)]
                /\ audit' = <<>>
                /\ last' = Request("manual_match", "rejected", 0 - 1, 400, FALSE)
           ELSE /\ handlers' = [handlers EXCEPT ![h] =
                                    [pc |-> "manual_payment", p |-> p, t |-> t,
                                     user |-> user, pend |-> NoWrites]]
                /\ UNCHANGED <<audit, last>>
        /\ UNCHANGED <<intents, txns, payments, now, allowed_ips, audit_logs, alerts>>

\* manual_match: payment.is_matched = True and the linkage
ManualWritePayment(h) ==
    /\ handlers[h].pc = "manual_payment"
    /\ LET s == handlers[h]
           row == MatchedPayment(payments[s.p], s.t, s.user, None)
       IN handlers' = [handlers EXCEPT
                          ![h].pc = "manual_txn",
                          ![h].pend.payments = Write(s.pend.payments, s.p, row)]
    /\ UNCHANGED <<intents, txns, payments, audit, now, allowed_ips,
                   audit_logs, alerts, last>>

\* manual_match: transaction.mpesa_code and payment_method
ManualWriteTransaction(h) ==
    /\ handlers[h].pc = "manual_txn"
    /\ LET s == handlers[h]
           row == [txns[s.t] EXCEPT !.mpesa_code = payments[s.p].receipt,
                                    !.payment_method = "mpesa"]
       IN handlers' = [handlers EXCEPT
                          ![h].pc = "manual_intent",
                          ![h].pend.txns = Write(s.pend.txns, s.t, row)]
    /\ UNCHANGED <<intents, txns, payments, audit, now, allowed_ips,
                   audit_logs, alerts, last>>

\* manual_match: the query for a PENDING intent of the transaction; one that
\* is found is confirmed and linked to the payment
ManualWriteIntent(h) ==
    /\ handlers[h].pc = "manual_intent"
    /\ LET s == handlers[h]
           pend == {i \in Idx(intents) :
                       intents[i].transaction_id = s.t /\ intents[i].status = PENDING}
           i == IF pend = {} THEN None
                ELSE CHOOSE x \in pend : \A y \in pend : x <= y
       IN IF i = None
          THEN handlers' = [handlers EXCEPT ![h].pc = "manual_commit"]
          ELSE handlers' = [handlers EXCEPT
                  ![h].pc = "manual_commit",
                  ![h].pend.intents =
                      Write(s.pend.intents, i,
                            [intents[i] EXCEPT !.status = CONFIRMED,
                                               !.receipt = payments[s.p].receipt,
                                               !.confirmed_at = now]),
                  ![h].pend.payments =
                      Write(s.pend.payments, s.p,
                            [s.pend.payments[s.p] EXCEPT !.matched_intent_id = i])]
    /\ UNCHANGED <<intents, txns, payments, audit, now, allowed_ips,
                   audit_logs, alerts, last>>

\* manual_match: an exception inside the try block.  The except clause rolls
\* back and returns False.
ManualRaise(h) ==
    /\ handlers[h].pc \in {"manual_payment", "manual_txn", "manual_intent",
                           "manual_commit"}
    /\ LET db == rollback(Database, handlers[h].pend)
       IN /\ intents' = db.intents
          /\ txns' = db.txns
          /\ payments' = db.payments
    /\ audit' = <<>>
    /\ last' = Request("manual_match", "rejected", 0 - 1, 400, TRUE)
    /\ handlers' = [handlers EXCEPT ![h] =
                        Returned(FALSE, handlers[h].p, handlers[h].t)]
    /\ UNCHANGED <<now, allowed_ips, audit_logs, alerts>>

\* db.commit() of the matcher (the callback is acknowledged) and of
\* manual_match (after its audit row; the call returns True)
SessionCommit(h) ==
    /\ handlers[h].pc \in {"matcher_commit", "manual_commit"}
    /\ LET db == commit(Database, handlers[h].pend)
           manual == handlers[h].pc = "manual_commit"
       IN /\ intents' = db.intents
          /\ txns' = db.txns
          /\ payments' = db.payments
          /\ audit' = IF manual THEN log_audit(<<>>, "MANUAL_MPESA_MATCH", 0, 0, "")
                                ELSE <<>>
          /\ last' = IF manual
                     THEN Request("manual_match", "matched", 0 - 1, 200, FALSE)
                     ELSE Request("callback", "confirmed", 0, 200, FALSE)
          /\ handlers' = [handlers EXCEPT ![h] =
                              IF manual
                              THEN Returned(TRUE, handlers[h].p, handlers[h].t)
                              ELSE Done(0, "none")]
    /\ UNCHANGED <<now, allowed_ips, audit_logs, alerts>>

\* The process serving the request dies inside a unit of work: the datastore
\* ends its transaction, and the request is never answered.  last records the
\* position the handler had reached.
Crash(h) ==
    /\ InSession(h)
    /\ LET db == rollback(Database, handlers[h].pend)
       IN /\ intents' = db.intents
          /\ txns' = db.txns
          /\ payments' = db.payments
    /\ audit' = <<>>
    /\ last' = Request("crash", handlers[h].pc, 0 - 1, 0, TRUE)
    /\ handlers' = [handlers EXCEPT ![h] = Idle]
    /\ UNCHANGED <<now, allowed_ips, audit_logs, alerts>>

\* One worker serves callbacks and manual matches one after the other, and can
\* fail or die at any statement
Worker == "w1"

NextCrash ==
    \/ Initiate
    \/ MatcherQuery(Worker)
    \/ MatcherWriteIntent(Worker)
    \/ MatcherWriteTransaction(Worker)
    \/ MatcherRaise(Worker)
    \/ ManualLoad(Worker)
    \/ ManualWritePayment(Worker)
    \/ ManualWriteTransaction(Worker)
    \/ ManualWriteIntent(Worker)
    \/ ManualRaise(Worker)
    \/ SessionCommit(Worker)
    \/ Crash(Worker)

SpecCrash == InitLedger /\ [][NextCrash]_vars

-----------------------------------------------------------------------------
(* The amount on its way through the gateway: initiate stores the Decimal    *)
(* amount of the request on the intent and hands float(amount) to the        *)
(* gateway client, which submits int(amount); the provider reports what the  *)
(* customer paid, the amount submitted.                                      *)

\* The amounts of the initiate requests: KES 1.00, 1.01 and 1.50
GatewayAmounts == {100, 101, 150}

\* "Amount": int(amount), in whole shillings: the fraction is cut off
stk_amount(amount) == amount \div 100

\* The provider's success callback for intent i: the checkout id it issued,
\* the amount it was asked to collect, and receipt number r
PaidCallback(i, r) ==
    Callback_("safaricom", "ok", 0, intents[i].checkout,
              stk_amount(intents[i].amount) * 100, r, {})

InitiateAmount ==
    \E t \in PaidTxns, amount \in GatewayAmounts, gateway \in GatewayOutcomes :
        LET r == initiate_mpesa_payment(t, amount, gateway) IN
        /\ Len(r.intents) <= MaxIntents
        /\ intents' = r.intents
        /\ audit' = <<>>
        /\ last' = Request("initiate", r.branch, 0 - 1, r.http, FALSE)
        /\ UNCHANGED <<txns, payments, now, allowed_ips, audit_logs, alerts, handlers>>

\* The provider calls back for a push it accepted
HonestCallback ==
    \E i \in Idx(intents), receipt \in Receipts :
        /\ intents[i].checkout # None
        /\ LET r == mpesa_callback(PaidCallback(i, receipt)) IN
           /\ intents' = r.intents
           /\ txns' = r.txns
           /\ payments' = r.payments
           /\ audit' = r.audit
           /\ last' = Request("callback", r.branch, r.ResultCode, 200, r.raised # "none")
        /\ UNCHANGED <<now, allowed_ips, audit_logs, alerts, handlers>>

NextGateway == InitiateAmount \/ HonestCallback \/ StatusRead \/ Tick

SpecGateway == Init /\ [][NextGateway]_vars

-----------------------------------------------------------------------------
(* Receipt numbers across sales: both sales of the ledger are paid through   *)
(* M-Pesa, and the provider's success callbacks name a receipt.              *)

\* The success callbacks with the expected amount, with and without an
\* exception inside the matcher
ReceiptCallbacks ==
    {cb \in CallbackRequests :
        /\ cb.ip = "safaricom" /\ cb.shape = "ok" /\ cb.result_code = 0
        /\ cb.amount = 100 /\ cb.receipt # None
        /\ cb.faults \in {{}, {"matcher"}}}

InitiateAny ==
    \E t \in TxnIds, gateway \in GatewayOutcomes :
        LET r == initiate_mpesa_payment(t, 100, gateway) IN
        /\ Len(r.intents) <= MaxIntents
        /\ intents' = r.intents
        /\ audit' = <<>>
        /\ last' = Request("initiate", r.branch, 0 - 1, r.http, FALSE)
        /\ UNCHANGED <<txns, payments, now, allowed_ips, audit_logs, alerts, handlers>>

ReceiptCallback ==
    \E cb \in ReceiptCallbacks :
        LET r == mpesa_callback(cb) IN
        /\ Len(r.payments) <= MaxPayments
        /\ intents' = r.intents
        /\ txns' = r.txns
        /\ payments' = r.payments
        /\ audit' = r.audit
        /\ last' = Request("callback", r.branch, r.ResultCode, 200, r.raised # "none")
        /\ UNCHANGED <<now, allowed_ips, audit_logs, alerts, handlers>>

NextReceipts == InitiateAny \/ ReceiptCallback \/ ManualMatch

SpecReceipts == InitLedger /\ [][NextReceipts]_vars

-----------------------------------------------------------------------------
(* Manual matches side by side.  Two requests to POST /mpesa/match are       *)
(* served by two workers, each with its own session; a query sees the        *)
(* committed rows.  No query of manual_match locks a row, and the row lock   *)
(* an UPDATE takes delays the other worker's UPDATE until the commit without *)
(* refusing it.                                                              *)

\* A success callback during which the matcher raises: the payment is filed
\* in the inbox and the intent stays PENDING
UnmatchedCallback ==
    \E cb \in {c \in ReceiptCallbacks : c.faults = {"matcher"}} :
        LET r == mpesa_callback(cb) IN
        /\ Len(r.payments) <= MaxPayments
        /\ intents' = r.intents
        /\ txns' = r.txns
        /\ payments' = r.payments
        /\ audit' = r.audit
        /\ last' = Request("callback", r.branch, r.ResultCode, 200, r.raised # "none")
        /\ UNCHANGED <<now, allowed_ips, audit_logs, alerts, handlers>>

NextManualRace ==
    \/ InitiateAny
    \/ UnmatchedCallback
    \/ \E h \in Handlers : ManualLoad(h)
    \/ \E h \in Handlers : ManualWritePayment(h)
    \/ \E h \in Handlers : ManualWriteTransaction(h)
    \/ \E h \in Handlers : ManualWriteIntent(h)
    \/ \E h \in Handlers : SessionCommit(h)

SpecManualRace == InitLedger /\ [][NextManualRace]_vars

-----------------------------------------------------------------------------
(* Properties *)

\* a callback that passes the allowlist, parses, names a checkout id and whose
\* intent lookup does not raise
ReachesLookup(cb) ==
    /\ ~Unauthorized(cb.ip)
    /\ cb.shape = "ok"
    /\ cb.checkout # None
    /\ "lookup" \notin cb.faults

\* no intent carries the checkout id c
NeverIssued(c) == \A i \in Idx(intents) : intents[i].checkout # c

AuditRow(action, expected, received, existing_status) ==
    [action |-> action, expected |-> expected, received |-> received,
     existing_status |-> existing_status]

TerminalStatuses == {CONFIRMED, FAILED, EXPIRED, CANCELLED}

ActiveIntentsOf(t) ==
    {i \in Idx(intents) :
        intents[i].transaction_id = t /\ intents[i].status \in {PENDING, CONFIRMED}}

\* C1: a callback whose checkout id belongs to an intent that is already
\* CONFIRMED or FAILED is a no-op: it is acknowledged with ResultCode 0,
\* writes exactly one MPESA_CALLBACK_REPLAY_DETECTED audit row carrying the
\* intent's status, and leaves every intent, transaction and payment row as
\* it was (so a second delivery of a success callback leaves one CONFIRMED
\* intent, the transaction's mpesa_code set once and no MpesaPayment row).
C1_ReplayIsNoOp ==
    /\ \A cb \in CallbackRequests : \A i \in Idx(intents) :
        (/\ ReachesLookup(cb)
         /\ intents[i].checkout = cb.checkout
         /\ intents[i].status \in {CONFIRMED, FAILED})
        => LET r == mpesa_callback(cb) IN
           /\ r.ResultCode = 0
           /\ r.audit = <<AuditRow("MPESA_CALLBACK_REPLAY_DETECTED", 0, 0,
                                   intents[i].status)>>
           /\ r.intents = intents
           /\ r.txns = txns
           /\ r.payments = payments
    /\ (last.op = "callback" /\ last.branch = "replay")
        => /\ last.ResultCode = 0
           /\ Len(audit) = 1
           /\ audit[1].action = "MPESA_CALLBACK_REPLAY_DETECTED"

\* C1 happens: the same success callback was delivered again; one CONFIRMED
\* intent, its transaction's code set, no payment row, one replay audit row
C1_Witness ==
    /\ last.op = "callback"
    /\ last.branch = "replay"
    /\ last.ResultCode = 0
    /\ audit = <<AuditRow("MPESA_CALLBACK_REPLAY_DETECTED", 0, 0, CONFIRMED)>>
    /\ Cardinality({i \in Idx(intents) : intents[i].status = CONFIRMED}) = 1
    /\ \E i \in Idx(intents) :
        /\ intents[i].status = CONFIRMED
        /\ txns[intents[i].transaction_id].mpesa_code = intents[i].receipt
    /\ payments = <<>>

\* C2: an intent in a terminal status (CONFIRMED, FAILED, EXPIRED, CANCELLED)
\* never changes status again, whatever request is served.
C2_TerminalStatusIsFinal ==
    [][\A i \in Idx(intents) :
        intents[i].status \in TerminalStatuses
        => intents'[i].status = intents[i].status]_vars

\* C3: a transaction never has more than one intent in PENDING or CONFIRMED.
C3_AtMostOneActiveIntent ==
    \A t \in DOMAIN txns : Cardinality(ActiveIntentsOf(t)) <= 1

\* C4: initiating a payment for a transaction that has a PENDING intent is
\* refused and creates nothing; once every intent of the transaction is FAILED
\* or EXPIRED, initiating again creates a new PENDING intent.
C4_InitiateConflictAndRetry ==
    \A t \in DOMAIN txns, a \in IntentAmounts, g \in GatewayOutcomes :
        LET r == initiate_mpesa_payment(t, a, g)
            mine == {i \in Idx(intents) : intents[i].transaction_id = t}
            n == Len(intents)
        IN
        /\ (\E i \in mine : intents[i].status = PENDING)
            => r.http = 400 /\ r.intents = intents
        /\ (/\ mine # {}
            /\ \A i \in mine : intents[i].status \in {FAILED, EXPIRED}
            /\ g = "ok")
            => /\ r.http = 200
               /\ Len(r.intents) = n + 1
               /\ SubSeq(r.intents, 1, n) = intents
               /\ r.intents[n + 1].status = PENDING
               /\ r.intents[n + 1].transaction_id = t

\* C4 happens: a retry was accepted after the first intent failed or expired
C4_Witness ==
    /\ last.op = "initiate"
    /\ last.branch = "created"
    /\ last.http = 200
    /\ Len(intents) = 2
    /\ intents[1].status \in {FAILED, EXPIRED}
    /\ intents[2].status = PENDING
    /\ intents[2].transaction_id = intents[1].transaction_id

\* C5: a success callback for a PENDING intent of amount A is accepted when its
\* amount is A - 0.01, A or A + 0.01, and rejected when it differs by 0.02 or
\* more; a rejected callback sets the intent FAILED with an amount-mismatch
\* reason, writes one MPESA_CALLBACK_AMOUNT_MISMATCH audit row holding the
\* expected and the received amount, and leaves the transaction untouched.
C5_AmountTolerance ==
    \A cb \in CallbackRequests : \A i \in Idx(intents) :
        (/\ ReachesLookup(cb)
         /\ cb.faults = {}
         /\ cb.result_code = 0
         /\ cb.amount # NoAmount
         /\ intents[i].checkout = cb.checkout
         /\ intents[i].status = PENDING)
        => LET r == mpesa_callback(cb)
               A == intents[i].amount
           IN
           /\ cb.amount \in {A - 1, A, A + 1}
               => /\ r.intents[i].status = CONFIRMED
                  /\ r.ResultCode = 0
                  /\ r.audit = <<>>
           /\ (cb.amount <= A - 2 \/ cb.amount >= A + 2)
               => /\ r.intents[i].status = FAILED
                  /\ r.intents[i].failure_reason = "Amount mismatch"
                  /\ r.audit = <<AuditRow("MPESA_CALLBACK_AMOUNT_MISMATCH", A,
                                          cb.amount, "")>>
                  /\ r.txns = txns

\* C5 happens: a callback two cents above the expected amount was rejected
C5_Witness ==
    /\ last.op = "callback"
    /\ last.branch = "mismatch"
    /\ Len(audit) = 1
    /\ audit[1].action = "MPESA_CALLBACK_AMOUNT_MISMATCH"
    /\ audit[1].received = audit[1].expected + 2
    /\ \E i \in Idx(intents) :
        /\ intents[i].status = FAILED
        /\ intents[i].failure_reason = "Amount mismatch"
        /\ intents[i].amount = audit[1].expected
        /\ txns[intents[i].transaction_id].mpesa_code = None

\* C6: a callback whose checkout id matches no intent creates no intent and no
\* payment row and modifies no transaction, whatever its result code, amount
\* or receipt; it writes exactly one MPESA_CALLBACK_UNKNOWN_REQUEST audit row.
C6_UnknownCheckoutCreatesNothing ==
    \A cb \in CallbackRequests :
        (ReachesLookup(cb) /\ NeverIssued(cb.checkout))
        => LET r == mpesa_callback(cb) IN
           /\ r.intents = intents
           /\ r.payments = payments
           /\ r.txns = txns
           /\ r.audit = <<AuditRow("MPESA_CALLBACK_UNKNOWN_REQUEST", 0, 0, "")>>

\* C6 happens: an unknown checkout id was refused while intents exist
C6_Witness ==
    /\ last.op = "callback"
    /\ last.branch = "unknown"
    /\ audit = <<AuditRow("MPESA_CALLBACK_UNKNOWN_REQUEST", 0, 0, "")>>
    /\ intents # <<>>
    /\ \E i \in Idx(intents) : intents[i].status = PENDING
    /\ payments = <<>>

\* C7: a callback whose checkout id matches no intent is acknowledged with
\* ResultCode 0 (do not retry).
C7_UnknownCheckoutAckIsZero ==
    (/\ last.op = "callback"
     /\ audit # <<>>
     /\ audit[1].action = "MPESA_CALLBACK_UNKNOWN_REQUEST")
    => last.ResultCode = 0

\* a success callback (result_code 0, with an amount) for a checkout id no
\* intent carries
UnknownSuccess(cb) ==
    /\ ReachesLookup(cb)
    /\ NeverIssued(cb.checkout)
    /\ cb.result_code = 0
    /\ cb.amount # NoAmount

C9_OneAuditRowPerCallback ==
    last.op = "callback" => Len(audit) = 1

\* C10: every callback is acknowledged with ResultCode 0 or 1, and a callback
\* during which an exception was raised is acknowledged with ResultCode 1 and
\* audited as MPESA_CALLBACK_ERROR unless that audit write fails too.
C10_ExceptionsAreErrorAcks ==
    last.op = "callback"
    => /\ last.ResultCode \in {0, 1}
       /\ last.raised
           => /\ last.ResultCode = 1
              /\ \A k \in Idx(audit) :
                    k = Len(audit) => audit[k].action = "MPESA_CALLBACK_ERROR"

\* C11: with an allowlist configured, a callback from an address outside it
\* is rejected before the payload is read: no intent, transaction or payment
\* row changes, one MPESA_CALLBACK_REJECTED audit row with reason
\* unauthorized_ip is written and ResultCode 1 is returned; with no allowlist
\* configured no caller is rejected at this step.
C11_SourceValidation ==
    \A cb \in CallbackRequests :
        LET r == mpesa_callback(cb) IN
        /\ (allowed_ips # {} /\ cb.ip \notin allowed_ips)
            => /\ r.intents = intents
               /\ r.txns = txns
               /\ r.payments = payments
               /\ r.audit = <<AuditRow("MPESA_CALLBACK_REJECTED", 0, 0,
                                       "unauthorized_ip")>>
               /\ r.ResultCode = 1
        /\ allowed_ips = {}
            => /\ r.branch # "unauthorized_ip"
               /\ \A k \in Idx(r.audit) :
                    r.audit[k].action # "MPESA_CALLBACK_REJECTED"

\* C11 happens: a caller outside the allowlist was rejected while an intent
\* was waiting for its callback
C11_Witness ==
    /\ allowed_ips # {}
    /\ last.op = "callback"
    /\ last.branch = "unauthorized_ip"
    /\ last.ResultCode = 1
    /\ audit = <<AuditRow("MPESA_CALLBACK_REJECTED", 0, 0, "unauthorized_ip")>>
    /\ \E i \in Idx(intents) : intents[i].status = PENDING

\* C12: a callback with result_code # 0 for a PENDING intent sets that intent
\* FAILED with the callback's result_desc as failure_reason, creates no
\* payment row and leaves every transaction as it was.
C12_ProviderFailure ==
    \A cb \in CallbackRequests : \A i \in Idx(intents) :
        (/\ ReachesLookup(cb)
         /\ cb.faults = {}
         /\ cb.result_code # 0
         /\ intents[i].checkout = cb.checkout
         /\ intents[i].status = PENDING)
        => LET r == mpesa_callback(cb) IN
           /\ r.intents = [intents EXCEPT ![i].status = FAILED,
                                          ![i].failure_reason = "result_desc"]
           /\ r.payments = payments
           /\ r.txns = txns

\* C12 happens: the provider reported a failure for the only intent
C12_Witness ==
    /\ last.op = "callback"
    /\ last.branch = "failed"
    /\ Len(intents) = 1
    /\ intents[1].status = FAILED
    /\ intents[1].failure_reason = "result_desc"
    /\ payments = <<>>
    /\ \A t \in DOMAIN txns : txns[t].mpesa_code = None

\* C13: a result_code 0 callback within tolerance for a PENDING intent sets the
\* intent CONFIRMED with the callback's receipt and a confirmed_at stamp, sets
\* the owning transaction's mpesa_code to that receipt (payment method
\* M-Pesa), creates no payment row and is acknowledged with ResultCode 0.
C13_SuccessfulConfirmation ==
    \A cb \in CallbackRequests : \A i \in Idx(intents) :
        (/\ ReachesLookup(cb)
         /\ cb.faults = {}
         /\ cb.result_code = 0
         /\ cb.amount # NoAmount
         /\ Abs(cb.amount - intents[i].amount) <= 1
         /\ intents[i].checkout = cb.checkout
         /\ intents[i].status = PENDING)
        => LET r == mpesa_callback(cb)
               t == intents[i].transaction_id
           IN
           /\ r.intents = [intents EXCEPT ![i].status = CONFIRMED,
                                          ![i].receipt = cb.receipt,
                                          ![i].confirmed_at = now]
           /\ r.txns = [txns EXCEPT ![t].mpesa_code = cb.receipt,
                                    ![t].payment_method = "mpesa"]
           /\ r.payments = payments
           /\ r.ResultCode = 0

\* C13 happens: the callback of the only intent confirmed it
C13_Witness ==
    /\ last.op = "callback"
    /\ last.branch = "confirmed"
    /\ last.ResultCode = 0
    /\ Len(intents) = 1
    /\ intents[1].status = CONFIRMED
    /\ intents[1].receipt \in Receipts
    /\ intents[1].confirmed_at = now
    /\ txns[intents[1].transaction_id].mpesa_code = intents[1].receipt
    /\ payments = <<>>

\* C14: manual_match fails and leaves every intent, transaction and payment
\* row unchanged when the payment does not exist, the transaction does not
\* exist or the payment is already matched; so after a successful match every
\* later call for that payment, with any transaction id, fails and leaves the
\* linkage and the transactions' mpesa_code untouched.
C14_ManualMatchGuarded ==
    /\ \A p \in 1..(MaxPayments + 1), t \in DOMAIN txns \cup {MissingTxn},
          user \in Users :
        (\/ p \notin Idx(payments)
         \/ t \notin DOMAIN txns
         \/ payments[p].is_matched)
        => LET r == manual_match(intents, txns, payments, p, t, user, now) IN
           /\ ~r.ok
           /\ r.intents = intents
           /\ r.txns = txns
           /\ r.payments = payments
    /\ (last.op = "manual_match" /\ last.branch = "rejected") => last.http = 400

\* C14 happens: a payment was matched to transaction 2, and a later call for it
\* was refused; transaction 1 carries no code
C14_Witness ==
    /\ last.op = "manual_match"
    /\ last.branch = "rejected"
    /\ Len(payments) = 1
    /\ payments[1].is_matched
    /\ payments[1].matched_transaction_id = 2
    /\ txns[2].mpesa_code = payments[1].receipt
    /\ txns[1].mpesa_code = None

C16_ReceiptIsUnique ==
    /\ \A j \in Idx(payments), k \in Idx(payments) :
            payments[j].receipt = payments[k].receipt => j = k
    /\ \A receipt \in Receipts, a \in CallbackAmounts :
        (\E k \in Idx(payments) : payments[k].receipt = receipt)
        => LET u == create_unmatched_payment(payments, receipt, a, FALSE) IN
           /\ ~u.raised
           /\ u.payments = payments

\* C16 happens: two handlers filed the same receipt side by side, the insert
\* of one was refused by the storage and a single row exists
C16_Witness ==
    /\ \A h \in Handlers : handlers[h].pc = "done"
    /\ \E h \in Handlers : handlers[h].site = "unique"
    /\ \E h \in Handlers : handlers[h].site = "none" /\ handlers[h].ResultCode = 0
    /\ Len(payments) = 1
    /\ ~payments[1].is_matched

\* C17: a handler whose insert of a payment row meets a row with the same
\* receipt number (filed by another handler since it looked) is answered as
\* already processed: ResultCode 0, no MPESA_CALLBACK_ERROR audit row, and the
\* existing row is kept.
C17_UniqueViolationIsAlreadyProcessed ==
    [][\A h \in Handlers :
        (/\ handlers[h].pc = "inserting"
         /\ handlers'[h].pc = "done"
         /\ \E k \in Idx(payments) : payments[k].receipt = handlers[h].cb.receipt)
        => /\ handlers'[h].ResultCode = 0
           /\ \A k \in Idx(audit') : audit'[k].action # "MPESA_CALLBACK_ERROR"
           /\ payments' = payments]_vars

\* C18: when two deliveries for one checkout id are handled side by side, only
\* one of them moves the intent out of PENDING: an intent that is no longer
\* PENDING keeps its status, receipt number and failure_reason.
C18_OneWriterPerIntent ==
    [][\A i \in Idx(intents) :
        intents[i].status # PENDING
        => /\ intents'[i].status = intents[i].status
           /\ intents'[i].receipt = intents[i].receipt
           /\ intents'[i].failure_reason = intents[i].failure_reason]_vars

\* C19: a status read of a PENDING intent past its expires_at stores EXPIRED
\* and returns it; every later status read of an intent stored as EXPIRED
\* returns EXPIRED and writes nothing; expires_at never changes.
C19_ExpiryIsMonotonic ==
    [][\A id \in Idx(intents) :
        /\ (intents[id].status = PENDING /\ now > intents[id].expires_at)
            => get_payment_intent(id).intents[id].status = EXPIRED
        /\ intents[id].status = EXPIRED
            => /\ (get_payment_intent(id).intents[id].status = EXPIRED)'
               /\ (get_payment_intent(id).intents = intents)'
        /\ intents'[id].expires_at = intents[id].expires_at]_vars

\* C20: when the gateway push fails during initiate (no access token,
\* transport error, or a declined push), the intent created for the request is
\* stored FAILED with the gateway's error text as failure_reason and the
\* caller gets an error; it is neither left PENDING nor dropped.
C20_GatewayFailureIsRecorded ==
    \A t \in DOMAIN txns, a \in IntentAmounts, g \in GatewayOutcomes \ {"ok"} :
        ~ActiveIntentExists(intents, t)
        => LET r == initiate_mpesa_payment(t, a, g)
               n == Len(intents)
           IN
           /\ r.http = 500
           /\ Len(r.intents) = n + 1
           /\ SubSeq(r.intents, 1, n) = intents
           /\ r.intents[n + 1].transaction_id = t
           /\ r.intents[n + 1].status = FAILED
           /\ r.intents[n + 1].failure_reason = "gateway error"
           /\ r.intents[n + 1].checkout = None

\* C20 happens: the push of the only initiate request failed at the gateway
C20_Witness ==
    /\ last.op = "initiate"
    /\ last.branch = "gateway_failed"
    /\ last.http = 500
    /\ Len(intents) = 1
    /\ intents[1].status = FAILED
    /\ intents[1].failure_reason = "gateway error"

\* C21: find_potential_matches returns exactly the transactions that are paid
\* through M-Pesa, carry no mpesa_code, are priced within 5.00 of the amount
\* (both ends included) and were created within 30 minutes of the payment's
\* date (both ends included): one priced 5.00 above and created 29 minutes
\* after is returned, one priced 6.00 above or created 31 minutes after is
\* not; the lookup changes no row.
C21_CandidateFilter ==
    /\ \A amount \in {PaidAmount, PaidAmount + 100} :
        LET found == find_potential_matches(txns, amount, PaidAt, FALSE) IN
        /\ \A t \in DOMAIN txns :
            t \in found
            <=> /\ txns[t].payment_method = "mpesa"
                /\ txns[t].mpesa_code = None
                /\ amount - 500 <= txns[t].final_amount
                /\ txns[t].final_amount <= amount + 500
                /\ PaidAt - 1800 <= txns[t].created_at
                /\ txns[t].created_at <= PaidAt + 1800
        /\ \A t \in DOMAIN txns :
            (/\ txns[t].payment_method = "mpesa"
             /\ txns[t].mpesa_code = None
             /\ txns[t].final_amount = amount + 500
             /\ txns[t].created_at = PaidAt + 1740)
            => t \in found
        /\ \A t \in DOMAIN txns :
            (\/ txns[t].final_amount = amount + 600
             \/ txns[t].created_at = PaidAt + 1860)
            => t \notin found
    /\ [][last'.op = "potential_matches"
          => /\ UNCHANGED <<intents, txns, payments>>
             /\ ~last'.raised
                => last'.returned
                     = find_potential_matches(txns, last'.amount,
                                              last'.transaction_date, FALSE)]_vars

\* C21 happens: the lookup returned the sale priced 5.00 above and created 29
\* minutes after, and left out a sale paid through M-Pesa without a code that
\* is priced 6.00 above the payment
C21_Witness ==
    /\ last.op = "potential_matches"
    /\ ~last.raised
    /\ last.amount = PaidAmount
    /\ last.returned = {2}
    /\ txns[1].payment_method = "mpesa"
    /\ txns[1].mpesa_code = None
    /\ txns[1].final_amount = PaidAmount + 600
    /\ txns[1].created_at = PaidAt + 1740

\* the percentage pct is variance / total * 100 developed to two decimal
\* places: its sign is the quotient's, its digits are the quotient's first
\* ones, and it is marked exact when the quotient ends there.  The totals are
\* taken in units of KES 100.00, which every amount of the report is a
\* multiple of.
IsPercentOf(pct, variance, total) ==
    LET v == Abs(variance) \div 10000
        e == Abs(total) \div 10000
        h == Abs(pct.hundredths)
    IN /\ variance % 10000 = 0 /\ total % 10000 = 0
       /\ h * e <= v * 10000
       /\ v * 10000 < (h + 1) * e
       /\ pct.exact <=> h * e = v * 10000
       /\ pct.hundredths > 0 => (variance > 0 <=> total > 0)
       /\ pct.hundredths < 0 => (variance > 0 <=> total < 0)

\* C22: the reconciliation report has variance_amount = confirmed_total -
\* expected_total and variance_percentage = variance_amount / expected_total
\* * 100, with variance_percentage 0 when expected_total is 0; expected_total
\* 10,000 and confirmed_total 9,800 give variance_amount -200 and
\* variance_percentage -2.0; producing the report changes no stored row.
C22_Variance ==
    /\ \A day \in ReportDays :
        LET r == get_reconciliation_report(day) IN
        /\ r.variance_amount = r.confirmed_total - r.expected_mpesa_total
        /\ r.expected_mpesa_total = 0
            => r.variance_percentage = [hundredths |-> 0, exact |-> TRUE]
        /\ r.expected_mpesa_total # 0
            => IsPercentOf(r.variance_percentage, r.variance_amount,
                           r.expected_mpesa_total)
        /\ (r.expected_mpesa_total = 1000000 /\ r.confirmed_total = 980000)
            => /\ r.variance_amount = 0 - 20000
               /\ r.variance_percentage = [hundredths |-> 0 - 200, exact |-> TRUE]
    /\ [][last'.op = "reconciliation"
          => /\ UNCHANGED <<intents, txns, payments>>
             /\ last'.report = get_reconciliation_report(last'.day)]_vars

\* The rows of txs that carry the client_generated_id c
SalesOf(txs, c) == {k \in DOMAIN txs : txs[k].client_generated_id = c}

\* C23: create_transaction is idempotent in client_generated_id: a call with a
\* client_generated_id is followed by exactly one row with that id, a later
\* call with the same client_generated_id returns that row (same id, same
\* transaction_number) and adds none, and calls with different
\* client_generated_ids create distinct transactions.
C23_CreateIsIdempotent ==
    [][(/\ last'.op = "create_transaction"
        /\ last'.http = 201
        /\ last'.client_generated_id # None)
       => /\ Cardinality(SalesOf(txns', last'.client_generated_id)) = 1
          /\ last'.id \in SalesOf(txns', last'.client_generated_id)
          /\ \A k \in DOMAIN txns :
                txns[k].client_generated_id = last'.client_generated_id
                => last'.id = k /\ txns' = txns
          /\ \A k \in DOMAIN txns :
                txns[k].client_generated_id # last'.client_generated_id
                => /\ last'.id # k
                   /\ txns'[last'.id].transaction_number
                        # txns[k].transaction_number]_vars

\* C24: alert detection does not duplicate alerts: with the audit activity
\* unchanged, a run of check_void_refund_abuse creates and returns one alert
\* for each user over the threshold that has no unresolved alert, and a second
\* run right after it returns none.
C24_NoDuplicateAlerts ==
    LET first == check_void_refund_abuse(audit_logs, alerts)
        second == check_void_refund_abuse(audit_logs, first.alerts)
    IN /\ second.created = <<>>
       /\ second.alerts = first.alerts
       /\ (alerts = <<>> /\ \E u \in Staff : audit_logs[u] >= VOID_REFUND_MEDIUM)
            => Len(first.created)
                 = Cardinality({u \in Staff : audit_logs[u] >= VOID_REFUND_MEDIUM})

\* C25: the exact-match routine called from the webhook returns None only
\* when no intent carries the checkout id; when one does, it returns that
\* intent, CONFIRMED; so the webhook files an unmatched payment only for a
\* receipt that has no intent, never for a callback whose intent exists and
\* stays PENDING.
C25_NoneOnlyWithoutIntent ==
    \A cb \in CallbackRequests :
        (ReachesLookup(cb) /\ cb.result_code = 0 /\ cb.amount # NoAmount)
        => LET i == IntentByCheckout(intents, cb.checkout)
               m == match_callback_to_intent(intents, txns, cb.checkout, cb.receipt,
                                             now, "matcher" \in cb.faults)
               r == mpesa_callback(cb)
           IN /\ m.matched = None <=> i = None
              /\ i # None => m.matched = i /\ m.intents[i].status = CONFIRMED
              /\ Len(r.payments) > Len(payments)
                  => i = None \/ r.intents[i].status # PENDING

\* C26: the writes of a callback and of manual_match are atomic.  Whatever
\* statement a handler fails or dies at, the committed rows never show an
\* intent CONFIRMED while the mpesa_code of its transaction is unset, nor a
\* transaction whose mpesa_code is set while neither a CONFIRMED intent of the
\* transaction nor a matched payment linked to it carries that receipt.
C26_AtomicWrites ==
    /\ \A i \in Idx(intents) :
          intents[i].status = CONFIRMED
          => txns[intents[i].transaction_id].mpesa_code # None
    /\ \A t \in DOMAIN txns :
          txns[t].mpesa_code # None
          => \/ \E i \in Idx(intents) :
                   /\ intents[i].transaction_id = t
                   /\ intents[i].status = CONFIRMED
                   /\ intents[i].receipt = txns[t].mpesa_code
             \/ \E p \in Idx(payments) :
                   /\ payments[p].is_matched
                   /\ payments[p].matched_transaction_id = t
                   /\ payments[p].receipt = txns[t].mpesa_code

\* a handler died after it had written CONFIRMED on the intent and before the
\* commit: the intent is PENDING and the transaction carries no code
C26_Witness ==
    /\ last.op = "crash"
    /\ last.branch \in {"matcher_txn", "matcher_commit", "manual_commit"}
    /\ \E i \in Idx(intents) :
          /\ intents[i].status = PENDING
          /\ txns[intents[i].transaction_id].mpesa_code = None

\* C27: every intent created through initiate can be confirmed by the
\* provider: the success callback that reports the amount the gateway client
\* submitted for a PENDING intent, int(amount), passes the amount validation
\* and leaves the intent CONFIRMED, whatever the fraction of the amount.
C27_HonestCallbackConfirms ==
    \A i \in Idx(intents), r \in Receipts :
        (intents[i].status = PENDING /\ intents[i].checkout # None)
        => LET res == mpesa_callback(PaidCallback(i, r))
           IN /\ res.branch = "confirmed"
              /\ res.intents[i].status = CONFIRMED

\* C28: a receipt number of the provider is credited at most once: no two
\* CONFIRMED intents carry the same mpesa_receipt_number and no two
\* transactions carry the same mpesa_code, also when the callbacks for two
\* pending checkout ids name the same receipt, and when a receipt that
\* confirmed an intent is matched by hand afterwards.
C28_ReceiptCreditedOnce ==
    /\ \A i, j \in Idx(intents) :
          (/\ i # j
           /\ intents[i].status = CONFIRMED /\ intents[j].status = CONFIRMED
           /\ intents[i].receipt # None)
          => intents[i].receipt # intents[j].receipt
    /\ \A t, u \in DOMAIN txns :
          (t # u /\ txns[t].mpesa_code # None)
          => txns[t].mpesa_code # txns[u].mpesa_code

\* C29: the mpesa_code of a transaction is write-once: once a confirmation by
\* callback or a manual match has set it to a receipt number, no later
\* callback and no later manual match replaces it with another receipt number.
C29_CodeIsWriteOnce ==
    [][\A t \in DOMAIN txns :
          txns[t].mpesa_code # None => txns'[t].mpesa_code = txns[t].mpesa_code]_vars

\* C30: when two manual_match calls for the same unmatched payment and
\* different transactions run side by side, at most one of them returns
\* success, and at most one transaction ends up with the payment's receipt
\* number as its mpesa_code.
C30_OneManualMatchWins ==
    /\ \A g, h \in Handlers :
          (/\ handlers[g].pc = "done" /\ handlers[h].pc = "done"
           /\ "ok" \in DOMAIN handlers[g] /\ "ok" \in DOMAIN handlers[h]
           /\ handlers[g].p = handlers[h].p
           /\ handlers[g].t # handlers[h].t)
          => ~(handlers[g].ok /\ handlers[h].ok)
    /\ \A p \in Idx(payments) :
          Cardinality({t \in DOMAIN txns :
                          txns[t].mpesa_code = payments[p].receipt}) <= 1

=============================================================================
